---- MODULE Spec2Model ----
(***************************************************************************)
(* The transaction ledger engine of the inventory service: the item        *)
(* aggregate (quantity on hand, cost basis), the append-only ledger, the   *)
(* purchase / donation / distribution handlers and void_transaction, and   *)
(* the database transaction (commit / rollback) every handler runs in.     *)
(*                                                                         *)
(* Quantities are Python floats in the source (binary floating point,      *)
(* round to nearest, ties to even).  Here a quantity is a binary float of  *)
(* MantissaBits significant bits, held as an integer count of 1/QScale     *)
(* units (QScale = 2^FracBits); every float operation of the source is     *)
(* computed exactly and then rounded to MantissaBits bits, and int() and   *)
(* round() are applied to the rounded value.  Money is integer cents.      *)
(***************************************************************************)
EXTENDS Integers, Sequences, FiniteSets, TLC

\* ---------------------------------------------------------------- bounds
FracBits == 1
MantissaBits == 3
MaxItems == 1
MaxLedger == 3
MaxQty == 4
MaxCost == 1
MaxFmv == 1
MaxConnections == 2
MaxClock == 2
MaxUtcOffset == 1

SKUs == 1..MaxItems
QtyInputs == 0..MaxQty
CostInputs == (-1)..MaxCost
FmvInputs == (-1)..MaxFmv
ItemIdInputs == 1..MaxItems
TxIdInputs == 1..MaxLedger
ReasonInputs == {"CLIENT", "SPOILAGE"}
FaultPoints == {"insert", "flag", "commit"}
Connections == 1..MaxConnections
UtcOffsets == (-MaxUtcOffset)..MaxUtcOffset

\* items, ledger: the two tables (a row's id is its position).
\* last: what the last finished call gave its caller.
\* pre: the tables as they were when the last call started.
\* inflight: per database connection (one per process on the database file),
\*   the call that has read its rows and not yet written ("idle" if none).
\* round: the tables when the calls now overlapping began, and those calls.
\* transaction_date: the transaction_date column, by row id.
\* clock: the time (UTC) in seconds.
\* utcoffset: the machine's local time minus UTC.
VARIABLES items, ledger, last, pre, inflight, round,
          transaction_date, clock, utcoffset

vars == <<items, ledger, last, pre, inflight, round,
          transaction_date, clock, utcoffset>>

\* ------------------------------------------------- conversions (Python)
RECURSIVE Pow2(_)
Pow2(n) == IF n = 0 THEN 1 ELSE 2 * Pow2(n - 1)

\* a quantity of 1.0 in the units quantities are held in
QScale == Pow2(FracBits)

\* the integer nearest to num / den (den > 0), ties to the even one
RoundHalfEven(num, den) ==
    LET fl == num \div den
        r2 == 2 * (num % den)
    IN  IF r2 < den THEN fl
        ELSE IF r2 > den THEN fl + 1
        ELSE IF fl % 2 = 0 THEN fl ELSE fl + 1

\* The float nearest to num / den (num >= 0, den > 0), as <<n, d>> with
\* value n / d and d a power of two: the mantissa is num / den scaled into
\* [2^(MantissaBits-1), 2^MantissaBits) and rounded half to even.
\* mantissas are the integers in [MantissaStart, MantissaEnd)
MantissaStart == Pow2(MantissaBits - 1)
MantissaEnd == Pow2(MantissaBits)

RECURSIVE FloatOfRatio(_, _)
FloatOfRatio(num, den) ==
    IF num = 0 THEN <<0, 1>>
    ELSE IF num >= MantissaEnd * den
         THEN LET r == FloatOfRatio(num, 2 * den) IN <<2 * r[1], r[2]>>
    ELSE IF num < MantissaStart * den
         THEN LET r == FloatOfRatio(2 * num, den) IN <<r[1], 2 * r[2]>>
    ELSE <<RoundHalfEven(num, den), 1>>

\* float result of an operation whose exact value is num / den, either sign
Float(num, den) ==
    IF num >= 0 THEN FloatOfRatio(num, den)
    ELSE LET r == FloatOfRatio(-num, den) IN <<-r[1], r[2]>>

Abs(x) == IF x < 0 THEN -x ELSE x

\* a + b on two quantities (both in 1/QScale units, as is the result)
FloatAdd(a, b) == LET r == Float(a + b, 1) IN r[1] \div r[2]

\* a - b on two quantities
FloatSub(a, b) == FloatAdd(a, -b)

\* quantity * cents, a float number of cents (the int is converted first)
FloatMul(quantity, cents) ==
    LET c == Float(cents, 1) IN Float(quantity * c[1], QScale * c[2])

\* cents / quantity, a float number of cents per unit
FloatDiv(cents, quantity) ==
    LET c == Float(cents, 1) IN Float(c[1] * QScale, c[2] * quantity)

\* int(x) of a float x = <<n, d>>: truncation toward zero.
PyInt(x) ==
    IF x[1] >= 0 THEN x[1] \div x[2] ELSE -((-x[1]) \div x[2])

\* round(x) of a float x = <<n, d>>: nearest integer, ties to the even one.
PyRound(x) == RoundHalfEven(x[1], x[2])

\* ------------------------------------------------------- InventoryItem
\* InventoryItem.__post_init__: an item row can be loaded only if both
\* fields are non-negative.
Item_post_init(item) ==
    item.quantity_on_hand >= 0 /\ item.total_cost_basis_cents >= 0

\* the quotient always rounded up
current_unit_cost_cents_ceiling(item) ==
    IF item.quantity_on_hand <= 0 THEN 0
    ELSE LET x == FloatDiv(item.total_cost_basis_cents, item.quantity_on_hand)
         IN  -((-x[1]) \div x[2])

\* the superseded computation: int() instead of round()
current_unit_cost_cents_truncating(item) ==
    IF item.quantity_on_hand <= 0 THEN 0
    ELSE PyInt(FloatDiv(item.total_cost_basis_cents, item.quantity_on_hand))

current_unit_cost_cents(item) ==
    IF item.quantity_on_hand <= 0 THEN 0
    ELSE PyRound(FloatDiv(item.total_cost_basis_cents, item.quantity_on_hand))

\* can_distribute without the comparison
can_distribute_always(item, quantity) == TRUE

\* can_distribute letting one unit too many through
can_distribute_off_by_one(item, quantity) == item.quantity_on_hand + 1 >= quantity

can_distribute(item, quantity) == item.quantity_on_hand >= quantity

\* <<new_quantity, new_cost_basis>>
calculate_purchase_state(item, quantity, total_cost_cents) ==
    <<FloatAdd(item.quantity_on_hand, quantity),
      item.total_cost_basis_cents + total_cost_cents>>

\* the floor applied to a cost basis that would go negative
floor_cost_basis(new_cost_basis) ==
    IF new_cost_basis < 0 THEN 0 ELSE new_cost_basis

\* the superseded computation: COGS truncated with int()
calculate_distribution_state_truncating(item, quantity) ==
    LET unit_cost_cents == current_unit_cost_cents(item)
        cogs_cents == PyInt(FloatMul(quantity, unit_cost_cents))
    IN  <<FloatSub(item.quantity_on_hand, quantity),
          floor_cost_basis(item.total_cost_basis_cents - cogs_cents),
          cogs_cents>>

\* <<new_quantity, new_cost_basis, cogs_cents>>
calculate_distribution_state(item, quantity) ==
    LET unit_cost_cents == current_unit_cost_cents(item)
        cogs_cents == PyRound(FloatMul(quantity, unit_cost_cents))
    IN  <<FloatSub(item.quantity_on_hand, quantity),
          floor_cost_basis(item.total_cost_basis_cents - cogs_cents),
          cogs_cents>>

\* --------------------------------------------------------- Transaction
NewTransaction(item_id, type, qty, unit_cost, fmv, impact, reason, ref) ==
    [item_id |-> item_id,
     transaction_type |-> type,
     quantity_change |-> qty,
     unit_cost_cents |-> unit_cost,
     fair_market_value_cents |-> fmv,
     total_financial_impact_cents |-> impact,
     reason_code |-> reason,
     is_voided |-> FALSE,
     ref_transaction_id |-> ref]

\* Transaction.__post_init__ and the table's CHECK constraint: the sign of
\* quantity_change is constrained by the type.
Transaction_post_init(tx) ==
    CASE tx.transaction_type = "DISTRIBUTION" -> tx.quantity_change < 0
      [] tx.transaction_type \in {"PURCHASE", "DONATION"} -> tx.quantity_change > 0
      [] OTHER -> TRUE

NoTx == NewTransaction(0, "NONE", 0, 0, 0, 0, "NONE", 0)

\* ------------------------------------------------------------- outcomes
\* What a handler decides before it writes: the error it raises, or the
\* item update and the ledger row it is going to write.
ErrPlan(e) ==
    [err |-> e, item_id |-> 0, new_quantity |-> 0, new_cost_basis |-> 0,
     row |-> NoTx, void_id |-> 0]

OkPlan(item_id, new_quantity, new_cost_basis, row, void_id) ==
    [err |-> "OK", item_id |-> item_id, new_quantity |-> new_quantity,
     new_cost_basis |-> new_cost_basis, row |-> row, void_id |-> void_id]

\* SELECT * FROM inventory_items WHERE id = ? and InventoryItem.from_db_row:
\* "OK" or the error raised.
load_item(its, item_id) ==
    IF item_id \notin DOMAIN its THEN "Item not found"
    ELSE IF ~Item_post_init(its[item_id]) THEN "cannot be negative"
    ELSE "OK"

\* process_purchase without the check of the unit cost
purchase_plan_unchecked_cost(its, item_id, quantity, unit_cost_cents) ==
    IF quantity <= 0 THEN ErrPlan("quantity must be positive")
    ELSE IF load_item(its, item_id) # "OK" THEN ErrPlan(load_item(its, item_id))
    ELSE LET total_cost_cents == PyInt(FloatMul(quantity, unit_cost_cents))
         IN  OkPlan(item_id, FloatAdd(its[item_id].quantity_on_hand, quantity),
                    its[item_id].total_cost_basis_cents + total_cost_cents,
                    NewTransaction(item_id, "PURCHASE", quantity, unit_cost_cents,
                                   0, 0, "NONE", 0),
                    0)

\* process_purchase up to its first write.  unit_cost_cents is
\* int(unit_cost_dollars * 100); a negative input stands for negative dollars.
purchase_plan(its, item_id, quantity, unit_cost_cents) ==
    IF quantity <= 0 THEN ErrPlan("quantity must be positive")
    ELSE IF unit_cost_cents < 0 THEN ErrPlan("Unit cost cannot be negative")
    ELSE IF load_item(its, item_id) # "OK" THEN ErrPlan(load_item(its, item_id))
    ELSE LET total_cost_cents == PyInt(FloatMul(quantity, unit_cost_cents))
             st == calculate_purchase_state(its[item_id], quantity, total_cost_cents)
         IN  OkPlan(item_id, st[1], st[2],
                    NewTransaction(item_id, "PURCHASE", quantity, unit_cost_cents,
                                   0, 0, "NONE", 0),
                    0)

\* process_donation entering the fair market value into the cost basis
donation_plan_fmv_in_basis(its, item_id, quantity, fmv_cents) ==
    IF quantity <= 0 THEN ErrPlan("quantity must be positive")
    ELSE IF load_item(its, item_id) # "OK" THEN ErrPlan(load_item(its, item_id))
    ELSE LET total_fmv_cents == PyInt(FloatMul(quantity, fmv_cents))
             item == its[item_id]
         IN  OkPlan(item_id, FloatAdd(item.quantity_on_hand, quantity),
                    item.total_cost_basis_cents + Abs(total_fmv_cents),
                    NewTransaction(item_id, "DONATION", quantity, 0,
                                   total_fmv_cents, 0, "NONE", 0),
                    0)

\* process_donation up to its first write.  fmv_cents is per unit; the
\* handler does not check its sign.
donation_plan(its, item_id, quantity, fmv_cents) ==
    IF quantity <= 0 THEN ErrPlan("quantity must be positive")
    ELSE IF load_item(its, item_id) # "OK" THEN ErrPlan(load_item(its, item_id))
    ELSE LET total_fmv_cents == PyInt(FloatMul(quantity, fmv_cents))
             item == its[item_id]
         IN  OkPlan(item_id, FloatAdd(item.quantity_on_hand, quantity),
                    item.total_cost_basis_cents,
                    NewTransaction(item_id, "DONATION", quantity, 0,
                                   total_fmv_cents, 0, "NONE", 0),
                    0)

\* process_distribution up to its first write.
distribution_plan(its, item_id, quantity, reason_code) ==
    IF quantity <= 0 THEN ErrPlan("quantity must be positive")
    ELSE IF load_item(its, item_id) # "OK" THEN ErrPlan(load_item(its, item_id))
    ELSE IF ~can_distribute(its[item_id], quantity)
         THEN ErrPlan("Insufficient inventory")
    ELSE LET item == its[item_id]
             st == calculate_distribution_state(item, quantity)
         IN  OkPlan(item_id, st[1], st[2],
                    NewTransaction(item_id, "DISTRIBUTION", -quantity,
                                   current_unit_cost_cents(item), 0, st[3],
                                   reason_code, 0),
                    0)

\* the flag guard never firing
already_voided_never(original_tx) == FALSE

\* the guard of void_transaction on the original row's flag
already_voided(original_tx) == original_tx.is_voided

\* the stock check testing only for an empty item
insufficient_stock_only_empty(item, original_tx) == item.quantity_on_hand <= 0

\* the stock check of void_transaction for PURCHASE and DONATION rows
insufficient_stock_for_void(item, original_tx) ==
    item.quantity_on_hand < original_tx.quantity_change

\* a reversal that takes the fair market value of a donation out of the
\* cost basis
void_reversal_removes_fmv(item, original_tx) ==
    CASE original_tx.transaction_type = "PURCHASE" ->
           <<FloatSub(item.quantity_on_hand, original_tx.quantity_change),
             item.total_cost_basis_cents
               - PyInt(FloatMul(original_tx.quantity_change,
                                original_tx.unit_cost_cents)),
             -original_tx.quantity_change>>
      [] original_tx.transaction_type = "DONATION" ->
           <<FloatSub(item.quantity_on_hand, original_tx.quantity_change),
             item.total_cost_basis_cents - original_tx.fair_market_value_cents,
             -original_tx.quantity_change>>
      [] OTHER ->
           <<FloatAdd(item.quantity_on_hand, -original_tx.quantity_change),
             item.total_cost_basis_cents + original_tx.total_financial_impact_cents,
             -original_tx.quantity_change>>

\* void_reversal writing the distribution's own (negative) quantity_change
\* on the correction row while adding the quantity back to the item
void_reversal_keeps_sign(item, original_tx) ==
    CASE original_tx.transaction_type = "PURCHASE" ->
           <<FloatSub(item.quantity_on_hand, original_tx.quantity_change),
             item.total_cost_basis_cents
               - PyInt(FloatMul(original_tx.quantity_change,
                                original_tx.unit_cost_cents)),
             -original_tx.quantity_change>>
      [] original_tx.transaction_type = "DONATION" ->
           <<FloatSub(item.quantity_on_hand, original_tx.quantity_change),
             item.total_cost_basis_cents,
             -original_tx.quantity_change>>
      [] OTHER ->
           <<FloatAdd(item.quantity_on_hand, -original_tx.quantity_change),
             item.total_cost_basis_cents + original_tx.total_financial_impact_cents,
             original_tx.quantity_change>>

\* Step 3 of void_transaction: <<new_qty, new_cost_basis, correction_qty>>
\* before the safety floor, by the type of the original.
void_reversal(item, original_tx) ==
    CASE original_tx.transaction_type = "PURCHASE" ->
           LET value_to_remove ==
                   PyInt(FloatMul(original_tx.quantity_change,
                                  original_tx.unit_cost_cents))
           IN  <<FloatSub(item.quantity_on_hand, original_tx.quantity_change),
                 item.total_cost_basis_cents - value_to_remove,
                 -original_tx.quantity_change>>
      [] original_tx.transaction_type = "DONATION" ->
           <<FloatSub(item.quantity_on_hand, original_tx.quantity_change),
             item.total_cost_basis_cents,
             -original_tx.quantity_change>>
      [] OTHER ->
           LET cogs_to_restore == original_tx.total_financial_impact_cents
               qty_to_restore == IF original_tx.quantity_change < 0
                                 THEN -original_tx.quantity_change
                                 ELSE original_tx.quantity_change
           IN  <<FloatAdd(item.quantity_on_hand, qty_to_restore),
                 item.total_cost_basis_cents + cogs_to_restore,
                 qty_to_restore>>

\* a void with no type rejected
voidable_type_any(type) == TRUE

\* the type dispatch without its DISTRIBUTION branch
voidable_type_intake_only(type) == type \in {"PURCHASE", "DONATION"}

\* the types void_transaction has a branch for
voidable_type(type) == type \in {"PURCHASE", "DONATION", "DISTRIBUTION"}

\* void_transaction up to its first write.
void_plan(its, led, transaction_id) ==
    IF transaction_id \notin DOMAIN led THEN ErrPlan("Transaction not found")
    ELSE IF already_voided(led[transaction_id]) THEN ErrPlan("already voided")
    ELSE IF load_item(its, led[transaction_id].item_id) # "OK"
         THEN ErrPlan(load_item(its, led[transaction_id].item_id))
    ELSE LET original_tx == led[transaction_id]
             item == its[original_tx.item_id]
         IN  IF ~voidable_type(original_tx.transaction_type)
                 THEN ErrPlan("Cannot void this transaction type")
             ELSE IF original_tx.transaction_type \in {"PURCHASE", "DONATION"}
                     /\ insufficient_stock_for_void(item, original_tx)
                 THEN ErrPlan("Insufficient stock")
             ELSE LET rv == void_reversal(item, original_tx)
                  IN  OkPlan(original_tx.item_id, rv[1], floor_cost_basis(rv[2]),
                             NewTransaction(original_tx.item_id, "CORRECTION", rv[3],
                                            original_tx.unit_cost_cents, 0, 0,
                                            "VOID", transaction_id),
                             transaction_id)

\* ---------------------------------------------------------------- writes
\* UPDATE inventory_items SET quantity_on_hand, total_cost_basis_cents
update_inventory_items(its, p) ==
    [its EXCEPT ![p.item_id].quantity_on_hand = p.new_quantity,
                ![p.item_id].total_cost_basis_cents = p.new_cost_basis]

\* an INSERT storing the quantity with the opposite sign
insert_inventory_transactions_negated(led, row) ==
    Append(led, [row EXCEPT !.quantity_change = -row.quantity_change])

\* the INSERT executed twice
insert_inventory_transactions_twice(led, row) == Append(Append(led, row), row)

\* INSERT INTO inventory_transactions; the id is the row's position
insert_inventory_transactions(led, row) == Append(led, row)

\* the flag update left out
mark_voided_none(led, p) == led

\* the flag update without its WHERE clause
mark_voided_all(led, p) ==
    IF p.void_id = 0 THEN led
    ELSE [t \in DOMAIN led |-> [led[t] EXCEPT !.is_voided = TRUE]]

\* UPDATE inventory_transactions SET is_voided = 1 WHERE id = ?
mark_voided(led, p) ==
    IF p.void_id = 0 THEN led ELSE [led EXCEPT ![p.void_id].is_voided = TRUE]

\* ------------------------------------------------ DatabaseManager.transaction
Snapshot(its, led) == [items |-> its, ledger |-> led]

\* conn.commit(): the connection's writes become the committed state
commit(written) == written

\* an exception path that leaves the connection's writes in place
rollback_noop(written, committed) == written

\* conn.rollback(): the connection goes back to the committed state
rollback(written, committed) == committed

\* What the connection has written when the statement `fault` is reached.
written_before(its, led, p, fault) ==
    LET w1 == update_inventory_items(its, p)
        w2 == insert_inventory_transactions(led, p.row)
        w3 == mark_voided(w2, p)
    IN  CASE fault = "insert" -> Snapshot(w1, led)
          [] fault = "flag" -> Snapshot(w1, w2)
          [] OTHER -> Snapshot(w1, w3)

\* One `with transaction()` block of a handler that decided p, started on
\* the committed tables (its, led): the error raised ("OK" if none) and the
\* tables it leaves.  fault names the statement the database fails at
\* ("none": it does not).  The rows written are read back through
\* from_db_row inside the block, so a row that fails __post_init__ raises
\* and rolls the block back.
Outcome(its, led, p, fault) ==
    LET c0 == Snapshot(its, led)
    IN  IF p.err # "OK" THEN [err |-> p.err, db |-> rollback(c0, c0)]
        ELSE LET w == written_before(its, led, p, fault)
             IN  IF fault # "none"
                     THEN [err |-> "sqlite3.Error", db |-> rollback(w, c0)]
                 ELSE IF ~Transaction_post_init(p.row)
                     THEN [err |-> "quantity_change sign", db |-> rollback(w, c0)]
                 ELSE IF ~Item_post_init(w.items[p.item_id])
                     THEN [err |-> "cannot be negative", db |-> rollback(w, c0)]
                 ELSE [err |-> "OK", db |-> commit(w)]

\* ------------------------------------------------------- call records
\* A call returns its objects (the item; the new row, or for a void the
\* original row) or raises a ValueError with a message.
Returned(op, item_id, tx_id) ==
    [op |-> op, err |-> "OK", item_id |-> item_id, tx_id |-> tx_id]

Raised(err) == [op |-> "raise", err |-> err, item_id |-> 0, tx_id |-> 0]

\* a connection with no call between its read and its write
Idle == [pc |-> "idle", op |-> "none", plan |-> ErrPlan("none"), tx_id |-> 0]

\* ------------------------------------------------------- transaction_date
\* A timestamp text is <<seconds, fraction>>: fraction 0 is a text that ends
\* at the seconds, which sorts before the same text with a fraction.
\* the column default: UTC, to the second
CURRENT_TIMESTAMP == <<clock, 0>>

\* datetime.now() as the sqlite3 adapter stores it: local time, with
\* microseconds
datetime_now == <<clock + utcoffset, 1>>

\* the transaction_date column after a call that left the ledger led2: a
\* CORRECTION row is given datetime.now(), the other rows take the default
insert_transaction_date(led2) ==
    IF Len(led2) > Len(ledger)
        THEN Append(transaction_date,
                    IF led2[Len(led2)].transaction_type = "CORRECTION"
                        THEN datetime_now ELSE CURRENT_TIMESTAMP)
    ELSE transaction_date

\* the empty database
InitTables ==
    /\ items = <<>>
    /\ ledger = <<>>
    /\ last = Returned("none", 0, 0)
    /\ pre = Snapshot(<<>>, <<>>)
    /\ inflight = [c \in Connections |-> Idle]
    /\ round = [base |-> Snapshot(<<>>, <<>>), calls |-> <<>>]
    /\ transaction_date = <<>>
    /\ clock = 0

\* a machine whose local time is UTC
Init == InitTables /\ utcoffset = 0

\* A handler that decided p runs its block, with or without a database error.
RunCall(op, p, item_id, tx_id) ==
    \E fault \in {"none"} \cup (IF p.err # "OK" THEN {}
                               ELSE IF p.void_id = 0 THEN FaultPoints \ {"flag"}
                               ELSE FaultPoints) :
        LET o == Outcome(items, ledger, p, fault)
        IN  /\ o.err = "OK" => Len(ledger) < MaxLedger
            /\ items' = o.db.items
            /\ ledger' = o.db.ledger
            /\ last' = IF o.err = "OK" THEN Returned(op, item_id, tx_id)
                       ELSE Raised(o.err)
            /\ pre' = Snapshot(items, ledger)
            /\ transaction_date' = insert_transaction_date(o.db.ledger)
            /\ UNCHANGED <<inflight, round, clock, utcoffset>>

\* ------------------------------------------------------------- handlers
\* the row INSERT INTO inventory_items creates: quantity and cost basis
\* take the column defaults
NewItem(sku) ==
    [sku |-> sku, quantity_on_hand |-> 0, total_cost_basis_cents |-> 0]

\* create_item on the tables: the SKU check, the INSERT, the commit
create_item_block(sku) ==
    /\ IF \E i \in DOMAIN items : items[i].sku = sku
       THEN /\ last' = Raised("already exists")
            /\ UNCHANGED items
       ELSE /\ Len(items) < MaxItems
            /\ items' = Append(items, NewItem(sku))
            /\ last' = Returned("create_item", Len(items) + 1, 0)
    /\ pre' = Snapshot(items, ledger)
    /\ UNCHANGED <<ledger, transaction_date, clock, utcoffset>>

create_item(sku) == create_item_block(sku) /\ UNCHANGED <<inflight, round>>

process_purchase(item_id, quantity, unit_cost_cents) ==
    RunCall("process_purchase",
            purchase_plan(items, item_id, quantity, unit_cost_cents),
            item_id, Len(ledger) + 1)

process_donation(item_id, quantity, fmv_cents) ==
    RunCall("process_donation",
            donation_plan(items, item_id, quantity, fmv_cents),
            item_id, Len(ledger) + 1)

process_distribution(item_id, quantity, reason_code) ==
    RunCall("process_distribution",
            distribution_plan(items, item_id, quantity, reason_code),
            item_id, Len(ledger) + 1)

void_transaction(transaction_id) ==
    LET p == void_plan(items, ledger, transaction_id)
    IN  RunCall("void_transaction", p, p.item_id, transaction_id)

CreateItem == \E sku \in SKUs : create_item(sku)
Purchase == \E i \in ItemIdInputs, n \in QtyInputs, c \in CostInputs :
                process_purchase(i, n, c)
Donation == \E i \in ItemIdInputs, n \in QtyInputs, f \in FmvInputs :
                process_donation(i, n, f)
Distribution == \E i \in ItemIdInputs, n \in QtyInputs, r \in ReasonInputs :
                    process_distribution(i, n, r)
Void == \E t \in TxIdInputs : void_transaction(t)

Next == CreateItem \/ Purchase \/ Donation \/ Distribution \/ Void

Spec == Init /\ [][Next]_vars

\* ------------------------------------------------- transaction history
\* text a sorts before text b
TextLess(a, b) == a[1] < b[1] \/ (a[1] = b[1] /\ a[2] < b[2])

\* ORDER BY transaction_date DESC, id DESC: row j comes before row k
ListedBefore(j, k) ==
    \/ TextLess(transaction_date[k], transaction_date[j])
    \/ transaction_date[k] = transaction_date[j] /\ j > k

\* the rows `ids` in the order of the query
RECURSIVE OrderBy(_)
OrderBy(ids) ==
    IF ids = {} THEN <<>>
    ELSE LET first == CHOOSE j \in ids : \A k \in ids \ {j} : ListedBefore(j, k)
         IN  <<first>> \o OrderBy(ids \ {first})

\* the ids of the rows get_item_transactions returns, in its order
get_item_transactions(item_id) ==
    OrderBy({t \in DOMAIN ledger : ledger[t].item_id = item_id})

\* The calls with the clock running, on a machine in any time zone.  The
\* order of the history depends on the types of the rows and on the times
\* only, so each call is made with one quantity.
HistoryQty == QScale

InitHistory == InitTables /\ utcoffset \in UtcOffsets

Tick ==
    /\ clock < MaxClock
    /\ clock' = clock + 1
    /\ UNCHANGED <<items, ledger, last, pre, inflight, round,
                   transaction_date, utcoffset>>

HistoryPurchase == \E i \in ItemIdInputs : process_purchase(i, HistoryQty, 0)
HistoryDonation == \E i \in ItemIdInputs : process_donation(i, HistoryQty, 0)
HistoryDistribution ==
    \E i \in ItemIdInputs : process_distribution(i, HistoryQty, "CLIENT")

NextHistory ==
    \/ CreateItem
    \/ HistoryPurchase
    \/ HistoryDonation
    \/ HistoryDistribution
    \/ Void
    \/ Tick

SpecHistory == InitHistory /\ [][NextHistory]_vars

\* ------------------------------------------- calls from several connections
\* Each process on the database file has its own DatabaseManager and
\* connection.  A handler's SELECTs run before the connection has begun a
\* transaction (sqlite3 begins one at the first UPDATE or INSERT), so another
\* connection can commit between a handler's read and its writes; the writes
\* up to the commit hold the database's write lock and are one step.
Call(op, item_id, quantity, money, reason_code, transaction_id) ==
    [op |-> op, item_id |-> item_id, quantity |-> quantity, money |-> money,
     reason_code |-> reason_code, transaction_id |-> transaction_id]

\* what the handler of a call decides from the rows it reads
plan_for(call, its, led) ==
    CASE call.op = "process_purchase" ->
           purchase_plan(its, call.item_id, call.quantity, call.money)
      [] call.op = "process_donation" ->
           donation_plan(its, call.item_id, call.quantity, call.money)
      [] call.op = "process_distribution" ->
           distribution_plan(its, call.item_id, call.quantity, call.reason_code)
      [] OTHER -> void_plan(its, led, call.transaction_id)

AllIdle == \A c \in Connections : inflight[c].pc = "idle"

\* The handler up to its first write: validation, the SELECTs, the new
\* state.  (A call that raises here has written nothing and leaves the
\* connection idle: it is the failing call of Spec.)  Connections are
\* interchangeable: the call goes to the first idle one.
BeginCall(c, op, item_id, quantity, money, reason_code, transaction_id) ==
    LET call == Call(op, item_id, quantity, money, reason_code, transaction_id)
        p == plan_for(call, items, ledger)
        calls0 == IF AllIdle THEN <<>> ELSE round.calls
        base0 == IF AllIdle THEN Snapshot(items, ledger) ELSE round.base
        reading == {d \in Connections : inflight[d].pc = "read"}
    IN  /\ inflight[c].pc = "idle"
        /\ \A d \in Connections : d < c => inflight[d].pc # "idle"
        /\ Len(calls0) < MaxConnections
        /\ Len(ledger) + Cardinality(reading) < MaxLedger
        /\ p.err = "OK"
        /\ round' = [base |-> base0, calls |-> Append(calls0, call)]
        /\ inflight' = [inflight EXCEPT ![c] =
                            [pc |-> "read", op |-> call.op, plan |-> p,
                             tx_id |-> call.transaction_id]]
        /\ UNCHANGED <<items, ledger, last, pre, transaction_date, clock, utcoffset>>

\* The rest of the handler: UPDATE the item with the values computed from
\* the rows read, INSERT the row, flag the original (a void), commit.
FinishCall(c) ==
    /\ inflight[c].pc = "read"
    /\ LET p == inflight[c].plan
           o == Outcome(items, ledger, p, "none")
       IN  /\ items' = o.db.items
           /\ ledger' = o.db.ledger
           /\ last' = IF o.err # "OK" THEN Raised(o.err)
                      ELSE Returned(inflight[c].op, p.item_id,
                                    IF p.void_id = 0 THEN Len(ledger) + 1
                                    ELSE p.void_id)
           /\ pre' = Snapshot(items, ledger)
           /\ transaction_date' = insert_transaction_date(o.db.ledger)
    /\ inflight' = [inflight EXCEPT ![c] = Idle]
    /\ UNCHANGED <<round, clock, utcoffset>>

ConnCreateItem ==
    /\ AllIdle
    /\ \E sku \in SKUs : create_item_block(sku)
    /\ round' = [base |-> Snapshot(items', ledger), calls |-> <<>>]
    /\ UNCHANGED inflight
ConnPurchase ==
    \E c \in Connections, i \in ItemIdInputs, n \in 1..MaxQty, m \in 0..MaxCost :
        BeginCall(c, "process_purchase", i, n, m, "NONE", 0)
ConnDonation ==
    \E c \in Connections, i \in ItemIdInputs, n \in 1..MaxQty, m \in FmvInputs :
        BeginCall(c, "process_donation", i, n, m, "NONE", 0)
ConnDistribution ==
    \E c \in Connections, i \in ItemIdInputs, n \in 1..MaxQty, r \in ReasonInputs :
        BeginCall(c, "process_distribution", i, n, 0, r, 0)
ConnVoid ==
    \E c \in Connections, t \in TxIdInputs :
        BeginCall(c, "void_transaction", 0, 0, 0, "NONE", t)
ConnFinish == \E c \in Connections : FinishCall(c)

NextConnections ==
    \/ ConnCreateItem \/ ConnPurchase \/ ConnDonation \/ ConnDistribution
    \/ ConnVoid \/ ConnFinish

SpecConnections == Init /\ [][NextConnections]_vars

\* ------------------------------------------------------------------ claims
EngineOps == {"process_purchase", "process_donation", "process_distribution",
              "void_transaction"}

\* C1: every item always has a non-negative quantity and a non-negative cost
\* basis, and no call ever writes a negative one (the validation of the rows
\* read back never fires).
InvNonNegative ==
    /\ \A i \in DOMAIN items :
           items[i].quantity_on_hand >= 0 /\ items[i].total_cost_basis_cents >= 0
    /\ last.err # "cannot be negative"

W_NonNegative ==
    /\ last.op = "void_transaction"
    /\ last.err = "OK"
    /\ items[last.item_id].quantity_on_hand = 0
    /\ ledger[last.tx_id].transaction_type = "PURCHASE"

SameAsPre == items = pre.items /\ ledger = pre.ledger

\* The call `p` run to its end on the current tables, no database error.
Try(p) == Outcome(items, ledger, p, "none")

NoChange(o) == o.db = Snapshot(items, ledger)

\* C2: for every item, |current_unit_cost_cents * quantity_on_hand -
\* total_cost_basis_cents| <= quantity_on_hand (one cent per unit); an item
\* with no quantity has no cost basis.  (Quantities are in 1/QScale units,
\* so both sides are multiplied by QScale.)
InvUnitCostTolerance ==
    \A i \in DOMAIN items :
        Abs(current_unit_cost_cents(items[i]) * items[i].quantity_on_hand
              - items[i].total_cost_basis_cents * QScale)
            <= items[i].quantity_on_hand

\* C3: from every reachable state, every valid purchase followed at once by
\* the void of that purchase succeeds and leaves the item's quantity and
\* cost basis exactly as they were before the purchase.
PurchaseVoidRoundTrip ==
    \A i \in DOMAIN items, n \in 1..MaxQty, c \in 0..MaxCost :
        LET o1 == Try(purchase_plan(items, i, n, c))
            t == Len(o1.db.ledger)
            o2 == Outcome(o1.db.items, o1.db.ledger,
                          void_plan(o1.db.items, o1.db.ledger, t), "none")
        IN  o1.err = "OK" =>
                /\ o2.err = "OK"
                /\ o2.db.items[i] = items[i]

\* C4: from every reachable state, every distribution of 0 < d <= quantity
\* on hand followed at once by the void of that distribution leaves the item
\* exactly as it was, also when the zero floor clamped the cost basis.
DistributionVoidRoundTrip ==
    \A i \in DOMAIN items, d \in 1..MaxQty, r \in ReasonInputs :
        LET o1 == Try(distribution_plan(items, i, d, r))
            t == Len(o1.db.ledger)
            o2 == Outcome(o1.db.items, o1.db.ledger,
                          void_plan(o1.db.items, o1.db.ledger, t), "none")
        IN  d <= items[i].quantity_on_hand =>
                /\ o1.err = "OK"
                /\ o2.err = "OK"
                /\ o2.db.items[i] = items[i]

\* C5: void_transaction on a row whose is_voided flag is set always fails,
\* and the failing call changes no item, appends no row and changes no flag.
DoubleVoidFails ==
    /\ \A t \in DOMAIN ledger :
           ledger[t].is_voided =>
               LET o == Try(void_plan(items, ledger, t))
               IN  o.err = "already voided" /\ NoChange(o)
    /\ last.err = "already voided" =>
           /\ SameAsPre
           /\ \E t \in DOMAIN ledger : ledger[t].is_voided

W_DoubleVoidFails ==
    /\ last.err = "already voided"
    /\ items[1].quantity_on_hand > 0

\* C6: process_distribution of more than the quantity on hand fails with the
\* insufficient-inventory error and leaves the item and the ledger as they were.
InsufficientInventoryFails ==
    /\ \A i \in DOMAIN items, d \in 1..(MaxQty + 1), r \in ReasonInputs :
           d > items[i].quantity_on_hand =>
               LET o == Try(distribution_plan(items, i, d, r))
               IN  o.err = "Insufficient inventory" /\ NoChange(o)
    /\ last.err = "Insufficient inventory" => SameAsPre

W_InsufficientInventoryFails ==
    /\ last.err = "Insufficient inventory"
    /\ items[1].quantity_on_hand > 0
    /\ items[1].total_cost_basis_cents > 0

\* C7: voiding a non-voided PURCHASE or DONATION whose quantity_change
\* exceeds the quantity on hand fails with the insufficient-stock error and
\* leaves the item, the original's flag and the ledger as they were.
VoidIntakeShortStockFails ==
    /\ \A t \in DOMAIN ledger :
           (/\ ~ledger[t].is_voided
            /\ ledger[t].transaction_type \in {"PURCHASE", "DONATION"}
            /\ ledger[t].quantity_change > items[ledger[t].item_id].quantity_on_hand)
           => LET o == Try(void_plan(items, ledger, t))
              IN  o.err = "Insufficient stock" /\ NoChange(o)
    /\ last.err = "Insufficient stock" =>
           /\ SameAsPre
           /\ \E t \in DOMAIN ledger :
                  /\ ~ledger[t].is_voided
                  /\ ledger[t].transaction_type \in {"PURCHASE", "DONATION"}

W_VoidIntakeShortStockFails ==
    /\ last.err = "Insufficient stock"
    /\ \E t \in DOMAIN ledger : ledger[t].transaction_type = "DISTRIBUTION"
    /\ \E t \in DOMAIN ledger :
           /\ ledger[t].transaction_type = "PURCHASE"
           /\ ~ledger[t].is_voided
           /\ items[1].quantity_on_hand > 0

\* C8: void_transaction of a CORRECTION row always fails as an unsupported
\* type and changes nothing; no CORRECTION row references a CORRECTION row
\* and no CORRECTION row is ever flagged voided.
CorrectionNeverVoided ==
    /\ \A t \in DOMAIN ledger :
           ledger[t].transaction_type = "CORRECTION" =>
               /\ ~ledger[t].is_voided
               /\ ledger[t].ref_transaction_id \in DOMAIN ledger
               /\ ledger[ledger[t].ref_transaction_id].transaction_type # "CORRECTION"
               /\ LET o == Try(void_plan(items, ledger, t))
                  IN  o.err = "Cannot void this transaction type" /\ NoChange(o)
    /\ last.err = "Cannot void this transaction type" => SameAsPre

W_CorrectionNeverVoided ==
    /\ last.err = "Cannot void this transaction type"
    /\ \E t \in DOMAIN ledger : ledger[t].transaction_type = "CORRECTION"

\* C9: the ledger is append-only: over any call no row disappears and no
\* field of an existing row changes, except that is_voided of a non-CORRECTION
\* row goes from false to true, and only for the row a successful
\* void_transaction was called on.
LedgerAppendOnly ==
    /\ Len(ledger) >= Len(pre.ledger)
    /\ \A t \in DOMAIN pre.ledger :
           \/ ledger[t] = pre.ledger[t]
           \/ /\ ledger[t] = [pre.ledger[t] EXCEPT !.is_voided = TRUE]
              /\ ~pre.ledger[t].is_voided
              /\ ledger[t].transaction_type # "CORRECTION"
              /\ last = Returned("void_transaction", ledger[t].item_id, t)

W_LedgerAppendOnly ==
    /\ last.op = "void_transaction"
    /\ last.err = "OK"
    /\ Len(pre.ledger) >= 2
    /\ ledger[last.tx_id] # pre.ledger[last.tx_id]
    /\ \E t \in DOMAIN pre.ledger : t # last.tx_id /\ ~ledger[t].is_voided

\* C10: every engine call is all-or-nothing: a call that raises, a database
\* error after the item update or after the row insert included, leaves the
\* tables as they were when it started; a call that returns has updated the
\* item, appended its one row and (a void) flagged the original, together.
AllOrNothing ==
    /\ last.err # "OK" => SameAsPre
    /\ (last.err = "OK" /\ last.op \in EngineOps) =>
           /\ Len(ledger) = Len(pre.ledger) + 1
           /\ ledger[Len(ledger)].item_id = last.item_id
           /\ items[last.item_id].quantity_on_hand =
                  FloatAdd(pre.items[last.item_id].quantity_on_hand,
                           ledger[Len(ledger)].quantity_change)
           /\ last.op = "void_transaction" =>
                  /\ ledger[last.tx_id].is_voided
                  /\ ~pre.ledger[last.tx_id].is_voided
                  /\ ledger[Len(ledger)].ref_transaction_id = last.tx_id
           /\ last.op # "void_transaction" => last.tx_id = Len(ledger)

W_AllOrNothing ==
    /\ last.err = "sqlite3.Error"
    /\ \E t \in DOMAIN ledger : ~ledger[t].is_voided
    /\ items[1].quantity_on_hand > 0

\* The quantity_change of the first n ledger rows of an item, added up in
\* ledger order from 0 in the arithmetic quantities are kept in.
RECURSIVE LedgerQuantity(_, _, _)
LedgerQuantity(led, item_id, n) ==
    IF n = 0 THEN 0
    ELSE IF led[n].item_id = item_id
         THEN FloatAdd(LedgerQuantity(led, item_id, n - 1), led[n].quantity_change)
    ELSE LedgerQuantity(led, item_id, n - 1)

\* C11: in every committed state each item's quantity_on_hand equals the sum
\* of quantity_change over all ledger rows of the item, voided originals and
\* CORRECTION rows included, starting from 0 at creation.
QuantityMatchesLedger ==
    \A i \in DOMAIN items :
        items[i].quantity_on_hand = LedgerQuantity(ledger, i, Len(ledger))

W_QuantityMatchesLedger ==
    /\ Len(ledger) = 3
    /\ ledger[2].transaction_type = "DISTRIBUTION"
    /\ ledger[2].is_voided
    /\ ledger[3].transaction_type = "CORRECTION"
    /\ items[1].quantity_on_hand > 0
    /\ last.err = "sqlite3.Error"

\* the tables after the calls of a sequence run one after the other
RECURSIVE Serial(_, _)
Serial(db, calls) ==
    IF calls = <<>> THEN db
    ELSE Serial(Outcome(db.items, db.ledger,
                        plan_for(Head(calls), db.items, db.ledger), "none").db,
                Tail(calls))

\* C12: engine calls issued concurrently never lose an update: once the
\* overlapping calls have all finished, the items and the ledger equal the
\* result of running those calls one after the other in some order.
NoLostUpdate ==
    AllIdle =>
        \E f \in Permutations(DOMAIN round.calls) :
            Snapshot(items, ledger) =
                Serial(round.base, [k \in DOMAIN round.calls |-> round.calls[f[k]]])

\* the CORRECTION rows of a ledger that reference row t
CorrectionsOf(led, t) ==
    {k \in DOMAIN led : led[k].transaction_type = "CORRECTION"
                          /\ led[k].ref_transaction_id = t}

\* C13: every CORRECTION row references one earlier non-CORRECTION row of
\* the same item, no two CORRECTION rows reference the same row, and a row is
\* flagged voided if and only if exactly one CORRECTION row references it.
CorrectionReferences ==
    /\ \A k \in DOMAIN ledger :
           ledger[k].transaction_type = "CORRECTION" =>
               /\ ledger[k].ref_transaction_id \in 1..(k - 1)
               /\ ledger[ledger[k].ref_transaction_id].transaction_type # "CORRECTION"
               /\ ledger[ledger[k].ref_transaction_id].item_id = ledger[k].item_id
    /\ \A t \in DOMAIN ledger :
           /\ Cardinality(CorrectionsOf(ledger, t)) <= 1
           /\ ledger[t].is_voided <=> Cardinality(CorrectionsOf(ledger, t)) = 1

W_CorrectionReferences ==
    /\ Len(ledger) = 3
    /\ ledger[1].is_voided
    /\ ~ledger[2].is_voided
    /\ ledger[2].transaction_type # "CORRECTION"
    /\ ledger[3].transaction_type = "CORRECTION"
    /\ ledger[3].ref_transaction_id = 1

\* C14: a successful process_donation of quantity n raises the item's
\* quantity_on_hand by n and leaves total_cost_basis_cents unchanged, whatever
\* fair market value is given.
DonationKeepsCostBasis ==
    /\ \A i \in DOMAIN items, n \in 1..MaxQty, f \in FmvInputs :
           LET o == Try(donation_plan(items, i, n, f))
           IN  o.err = "OK" =>
                   /\ o.db.items[i].quantity_on_hand
                          = FloatAdd(items[i].quantity_on_hand, n)
                   /\ o.db.items[i].total_cost_basis_cents
                          = items[i].total_cost_basis_cents
    /\ (last.op = "process_donation" /\ last.err = "OK") =>
           /\ items[last.item_id].quantity_on_hand
                  = FloatAdd(pre.items[last.item_id].quantity_on_hand,
                             ledger[last.tx_id].quantity_change)
           /\ items[last.item_id].total_cost_basis_cents
                  = pre.items[last.item_id].total_cost_basis_cents

W_DonationKeepsCostBasis ==
    /\ last.op = "process_donation"
    /\ last.err = "OK"
    /\ ledger[last.tx_id].fair_market_value_cents > 0
    /\ pre.items[last.item_id].total_cost_basis_cents > 0
    /\ pre.items[last.item_id].quantity_on_hand > 0

\* the tables `db` differ from the current ones in at most item i and in
\* one appended row
OnlyItemAndNewRow(db, i) ==
    /\ DOMAIN db.items = DOMAIN items
    /\ \A j \in DOMAIN items : j # i => db.items[j] = items[j]
    /\ db.items[i] = [items[i] EXCEPT
                         !.quantity_on_hand = db.items[i].quantity_on_hand,
                         !.total_cost_basis_cents = db.items[i].total_cost_basis_cents]
    /\ Len(db.ledger) = Len(ledger) + 1
    /\ SubSeq(db.ledger, 1, Len(ledger)) = ledger

\* C15: a successful process_purchase of quantity n at unit cost c cents
\* moves the item from (q, b) to (q + n, b + n*c) and appends exactly one
\* PURCHASE row with quantity_change n and unit_cost_cents c; no other item
\* and no existing row changes.  (n is in 1/QScale units, so the cost
\* equation is multiplied by QScale.)
PurchaseEffect ==
    \A i \in DOMAIN items, n \in QtyInputs, c \in CostInputs :
        LET o == Try(purchase_plan(items, i, n, c))
            row == o.db.ledger[Len(o.db.ledger)]
        IN  o.err = "OK" =>
                /\ OnlyItemAndNewRow(o.db, i)
                /\ o.db.items[i].quantity_on_hand
                       = FloatAdd(items[i].quantity_on_hand, n)
                /\ o.db.items[i].total_cost_basis_cents * QScale
                       = items[i].total_cost_basis_cents * QScale + n * c
                /\ row.item_id = i
                /\ row.transaction_type = "PURCHASE"
                /\ row.quantity_change = n
                /\ row.unit_cost_cents = c
                /\ ~row.is_voided

\* C16: a successful process_distribution of quantity d on an item at (q, b)
\* records COGS = round(d * UnitCost(b, q)), moves the item to
\* (q - d, max(0, b - COGS)) and appends exactly one DISTRIBUTION row with
\* quantity_change -d, unit_cost_cents UnitCost(b, q) and
\* total_financial_impact_cents COGS.
DistributionEffect ==
    \A i \in DOMAIN items, d \in QtyInputs, r \in ReasonInputs :
        LET o == Try(distribution_plan(items, i, d, r))
            row == o.db.ledger[Len(o.db.ledger)]
            UnitCost == current_unit_cost_cents(items[i])
            COGS == PyRound(FloatMul(d, UnitCost))
            b == items[i].total_cost_basis_cents
        IN  o.err = "OK" =>
                /\ OnlyItemAndNewRow(o.db, i)
                /\ o.db.items[i].quantity_on_hand
                       = FloatSub(items[i].quantity_on_hand, d)
                /\ o.db.items[i].total_cost_basis_cents
                       = IF b - COGS > 0 THEN b - COGS ELSE 0
                /\ row.item_id = i
                /\ row.transaction_type = "DISTRIBUTION"
                /\ row.quantity_change = -d
                /\ row.unit_cost_cents = UnitCost
                /\ row.total_financial_impact_cents = COGS
                /\ ~row.is_voided

W_DistributionEffect ==
    /\ last.op = "process_distribution"
    /\ last.err = "OK"
    /\ ledger[last.tx_id].total_financial_impact_cents > 0
    /\ items[last.item_id].quantity_on_hand > 0
    /\ items[last.item_id].total_cost_basis_cents > 0

\* r is the integer nearest to the float x = <<n, d>>, the even one of the
\* two when x lies half way
NearestTiesEven(r, x) ==
    /\ 2 * Abs(r * x[2] - x[1]) <= x[2]
    /\ 2 * Abs(r * x[2] - x[1]) = x[2] => r % 2 = 0

\* the fraction of the float x = <<n, d>> exceeds one half
FractionOverHalf(x) == 2 * (x[1] % x[2]) > x[2]

VoidDistributionSucceeds ==
    \A t \in DOMAIN ledger :
        (ledger[t].transaction_type = "DISTRIBUTION" /\ ~ledger[t].is_voided) =>
            LET o == Try(void_plan(items, ledger, t))
            IN  /\ o.err = "OK"
                /\ o.db.ledger[t].is_voided

W_VoidDistributionSucceeds ==
    \E t \in DOMAIN ledger :
        /\ ledger[t].transaction_type = "DISTRIBUTION"
        /\ ~ledger[t].is_voided
        /\ t < Len(ledger)
        /\ items[ledger[t].item_id].quantity_on_hand = 0
        /\ items[ledger[t].item_id].total_cost_basis_cents = 0
        /\ LET o == Try(void_plan(items, ledger, t))
           IN  /\ o.err = "OK"
               /\ o.db.items[ledger[t].item_id].quantity_on_hand > 0
               /\ o.db.items[ledger[t].item_id].total_cost_basis_cents > 0

\* C19: a successful void_transaction moves the item from (q, b) to
\* (q - n, max(0, b - n*c)) for a PURCHASE of quantity n at unit cost c, to
\* (q - n, b) for a DONATION of quantity n, and to (q + |n|, b + COGS) for a
\* DISTRIBUTION with quantity_change n and recorded
\* total_financial_impact_cents COGS.  (n is in 1/QScale units, so the
\* PURCHASE equation is multiplied by QScale.)
VoidEffect ==
    \A t \in DOMAIN ledger :
        LET o == Try(void_plan(items, ledger, t))
            tx == ledger[t]
            n == tx.quantity_change
            q == items[tx.item_id].quantity_on_hand
            b == items[tx.item_id].total_cost_basis_cents
            q2 == o.db.items[tx.item_id].quantity_on_hand
            b2 == o.db.items[tx.item_id].total_cost_basis_cents
        IN  o.err = "OK" =>
                CASE tx.transaction_type = "PURCHASE" ->
                       /\ q2 = FloatSub(q, n)
                       /\ b2 * QScale
                              = IF b * QScale - n * tx.unit_cost_cents > 0
                                    THEN b * QScale - n * tx.unit_cost_cents
                                ELSE 0
                  [] tx.transaction_type = "DONATION" ->
                       q2 = FloatSub(q, n) /\ b2 = b
                  [] tx.transaction_type = "DISTRIBUTION" ->
                       /\ q2 = FloatAdd(q, Abs(n))
                       /\ b2 = b + tx.total_financial_impact_cents
                  [] OTHER -> FALSE

\* The ledger `led2` is `led` with row t flagged voided and one appended
\* CORRECTION row that reverses row t.
IsVoidOf(led2, led, t) ==
    LET correction == led2[Len(led2)]
    IN  /\ Len(led2) = Len(led) + 1
        /\ \A k \in DOMAIN led : k # t => led2[k] = led[k]
        /\ ~led[t].is_voided
        /\ led2[t] = [led[t] EXCEPT !.is_voided = TRUE]
        /\ correction.transaction_type = "CORRECTION"
        /\ correction.item_id = led[t].item_id
        /\ correction.ref_transaction_id = t
        /\ correction.reason_code = "VOID"
        /\ correction.unit_cost_cents = led[t].unit_cost_cents
        /\ correction.quantity_change = -led[t].quantity_change
        /\ ~correction.is_voided

\* C20: every successful void_transaction appends exactly one CORRECTION row
\* for the same item with ref_transaction_id = the original's id, reason_code
\* VOID, the original's unit_cost_cents and minus the original's
\* quantity_change, and flags the original voided in the same step.
VoidAppendsCorrection ==
    /\ \A t \in TxIdInputs :
           LET o == Try(void_plan(items, ledger, t))
           IN  o.err = "OK" => IsVoidOf(o.db.ledger, ledger, t)
    /\ (last.op = "void_transaction" /\ last.err = "OK") =>
           IsVoidOf(ledger, pre.ledger, last.tx_id)

W_VoidAppendsCorrection ==
    /\ last.op = "void_transaction"
    /\ last.err = "OK"
    /\ pre.ledger[last.tx_id].transaction_type = "DISTRIBUTION"
    /\ pre.ledger[last.tx_id].unit_cost_cents > 0
    /\ ledger[Len(ledger)].quantity_change > 0
    /\ ledger[last.tx_id].is_voided

\* the call outcome o is a failure that left both tables as they are
FailsUnchanged(o) == o.err # "OK" /\ NoChange(o)

InputErrors == {"quantity must be positive", "Unit cost cannot be negative",
                "Item not found"}

\* C21: process_purchase, process_donation and process_distribution called
\* with a non-positive quantity, a negative unit cost or an item id that does
\* not exist fail, and the failing call changes no item and appends no row.
InvalidInputFails ==
    /\ \A i \in ItemIdInputs, n \in QtyInputs :
           (n <= 0 \/ i \notin DOMAIN items) =>
               /\ \A c \in CostInputs :
                      FailsUnchanged(Try(purchase_plan(items, i, n, c)))
               /\ \A f \in FmvInputs :
                      FailsUnchanged(Try(donation_plan(items, i, n, f)))
               /\ \A r \in ReasonInputs :
                      FailsUnchanged(Try(distribution_plan(items, i, n, r)))
    /\ \A i \in ItemIdInputs, n \in QtyInputs, c \in CostInputs :
           c < 0 => FailsUnchanged(Try(purchase_plan(items, i, n, c)))
    /\ last.err \in InputErrors => last.op = "raise" /\ SameAsPre

W_InvalidInputFails ==
    /\ last.err = "Unit cost cannot be negative"
    /\ SameAsPre
    /\ Len(ledger) > 0
    /\ \E i \in DOMAIN items : items[i].total_cost_basis_cents > 0

\* C22: the transaction history of an item is returned newest-first: of any
\* two rows of the same item, the row appended later (a CORRECTION row
\* included) is listed before the row appended earlier.
HistoryNewestFirst ==
    \A i \in DOMAIN items :
        LET history == get_item_transactions(i)
        IN  \A a, b \in DOMAIN history : a < b => history[a] > history[b]

\* C23: in every reachable ledger, every DISTRIBUTION row has
\* quantity_change < 0 and every PURCHASE and DONATION row has
\* quantity_change > 0.
QuantitySignByType ==
    \A t \in DOMAIN ledger :
        /\ ledger[t].transaction_type = "DISTRIBUTION"
               => ledger[t].quantity_change < 0
        /\ ledger[t].transaction_type \in {"PURCHASE", "DONATION"}
               => ledger[t].quantity_change > 0

W_QuantitySignByType ==
    /\ Len(ledger) = MaxLedger
    /\ \E t \in DOMAIN ledger : ledger[t].transaction_type = "PURCHASE"
    /\ \E t \in DOMAIN ledger : ledger[t].transaction_type = "DONATION"
    /\ \E t \in DOMAIN ledger : ledger[t].transaction_type = "DISTRIBUTION"

\* the tables with the fair market values blanked
FmvBlind(db) ==
    [items |-> db.items,
     ledger |-> [t \in DOMAIN db.ledger |->
                    [db.ledger[t] EXCEPT !.fair_market_value_cents = 0]]]

\* the call run to its end on the tables db, no database error
Run(db, call) ==
    Outcome(db.items, db.ledger, plan_for(call, db.items, db.ledger), "none")

\* two outcomes that agree on success and on everything but the fair
\* market values
SameCostSide(o1, o2) == o1.err = o2.err /\ FmvBlind(o1.db) = FmvBlind(o2.db)

\* the engine calls other than donations
OtherCalls ==
    {Call("process_purchase", i, n, c, "NONE", 0) :
         i \in ItemIdInputs, n \in QtyInputs, c \in CostInputs}
    \cup {Call("process_distribution", i, n, 0, r, 0) :
              i \in ItemIdInputs, n \in QtyInputs, r \in ReasonInputs}
    \cup {Call("void_transaction", 0, 0, 0, "NONE", t) : t \in TxIdInputs}

\* C24: fair market value never influences the cost side: two runs of the
\* same sequence of engine calls that differ only in the fair market values
\* of the donations reach the same quantity and cost basis for every item
\* and the same unit_cost_cents and total_financial_impact_cents on every
\* row.  Stated as the step condition that gives it by induction from the
\* empty tables: from the current tables and from the same tables with the
\* fair market values blanked, every call (a donation with any fair market
\* value against the donation with none) has the same outcome up to the
\* fair market values.
FmvNoninterference ==
    LET db == Snapshot(items, ledger)
    IN  /\ \A call \in OtherCalls :
               SameCostSide(Run(db, call), Run(FmvBlind(db), call))
        /\ \A i \in ItemIdInputs, n \in QtyInputs, f \in FmvInputs :
               SameCostSide(
                   Run(db, Call("process_donation", i, n, f, "NONE", 0)),
                   Run(FmvBlind(db), Call("process_donation", i, n, 0, "NONE", 0)))

W_FmvNoninterference ==
    /\ last.op = "void_transaction"
    /\ last.err = "OK"
    /\ pre.ledger[last.tx_id].transaction_type = "DONATION"
    /\ pre.ledger[last.tx_id].fair_market_value_cents > 0
    /\ pre.items[last.item_id].total_cost_basis_cents > 0
    /\ items[last.item_id].total_cost_basis_cents
           = pre.items[last.item_id].total_cost_basis_cents

\* C25: for every successful process_distribution, the COGS recorded in the
\* row's total_financial_impact_cents equals the cost basis removed from the
\* item: total_cost_basis_cents before minus total_cost_basis_cents after.
CogsEqualsBasisRemoved ==
    \A i \in DOMAIN items, d \in QtyInputs, r \in ReasonInputs :
        LET o == Try(distribution_plan(items, i, d, r))
        IN  o.err = "OK" =>
                o.db.ledger[Len(o.db.ledger)].total_financial_impact_cents
                    = items[i].total_cost_basis_cents
                          - o.db.items[i].total_cost_basis_cents

\* C26: the CORRECTION row appended when a DISTRIBUTION is voided records,
\* in its total_financial_impact_cents, the cost basis restored to the item
\* (the original distribution's COGS).
CorrectionRecordsRestored ==
    \A t \in DOMAIN ledger :
        LET o == Try(void_plan(items, ledger, t))
            i == ledger[t].item_id
        IN  (ledger[t].transaction_type = "DISTRIBUTION" /\ o.err = "OK") =>
                /\ o.db.ledger[Len(o.db.ledger)].total_financial_impact_cents
                       = o.db.items[i].total_cost_basis_cents
                             - items[i].total_cost_basis_cents
                /\ o.db.ledger[Len(o.db.ledger)].total_financial_impact_cents
                       = ledger[t].total_financial_impact_cents

\* C27: a donation only ever dilutes the weighted-average cost: for every
\* reachable item, current_unit_cost_cents after a successful
\* process_donation is at most current_unit_cost_cents before it.
DonationDilutes ==
    \A i \in DOMAIN items, n \in QtyInputs, f \in FmvInputs :
        LET o == Try(donation_plan(items, i, n, f))
        IN  o.err = "OK" =>
                current_unit_cost_cents(o.db.items[i])
                    <= current_unit_cost_cents(items[i])

\* C28: a distribution does not change the weighted-average cost: after any
\* successful process_distribution that leaves quantity_on_hand > 0, the
\* item's current_unit_cost_cents equals its value before the distribution
\* (the value stored in the row's unit_cost_cents).
DistributionKeepsUnitCost ==
    \A i \in DOMAIN items, d \in QtyInputs, r \in ReasonInputs :
        LET o == Try(distribution_plan(items, i, d, r))
        IN  (o.err = "OK" /\ o.db.items[i].quantity_on_hand > 0) =>
                /\ current_unit_cost_cents(o.db.items[i])
                       = current_unit_cost_cents(items[i])
                /\ current_unit_cost_cents(o.db.items[i])
                       = o.db.ledger[Len(o.db.ledger)].unit_cost_cents

RECURSIVE StandingPurchases(_, _, _)
StandingPurchases(led, item_id, n) ==
    IF n = 0 THEN 0
    ELSE StandingPurchases(led, item_id, n - 1)
           + (IF /\ led[n].item_id = item_id
                 /\ led[n].transaction_type = "PURCHASE"
                 /\ ~led[n].is_voided
                  THEN led[n].quantity_change * led[n].unit_cost_cents
              ELSE 0)

\* C30: after any sequence of engine calls, an item's total_cost_basis_cents
\* never exceeds the money spent on it and still standing: the sum of
\* quantity_change * unit_cost_cents over its PURCHASE rows that are not
\* voided.
BasisWithinStandingPurchases ==
    \A i \in DOMAIN items :
        items[i].total_cost_basis_cents * QScale
            <= StandingPurchases(ledger, i, Len(ledger))
====
